---- MODULE Spec2Model ----
(***************************************************************************)
(* A model of package timespec (src/timespec.go, the final revision that   *)
(* starts at line 1204): the byte cursor, the character-class combinators, *)
(* the name tables, the time, date and increment rules, the grammar driver *)
(* behind Parse, and Resolve.                                              *)
(*                                                                         *)
(* A byte is its ASCII code, a Go string or []byte is a sequence of bytes. *)
(* The cursor is the record [src, pos] of type buffer, with the number of  *)
(* calls of ReadByte beside the two fields; every combinator               *)
(* takes the cursor (and the Timespec) and returns the updated ones, which *)
(* is how the Go code's in-place mutation through pointers is rendered.    *)
(* An error value is the constant part of its fmt.Errorf format, and nil   *)
(* is the string "nil".                                                    *)
(*                                                                         *)
(* A statement x := f(...) followed by code that reads x is written        *)
(*     LET rest(x) == ... IN rest(f(...))                                  *)
(* so the steps of a function appear as local operators, the last step     *)
(* first.                                                                  *)
(***************************************************************************)
EXTENDS Integers, Sequences, FiniteSets, TLC

VARIABLES inp, src, rule, result

vars == <<inp, src, rule, result>>

(***************************************************************************)
(* Bytes and strings                                                       *)
(***************************************************************************)

\* The characters that occur in the inputs, each run in ASCII code order.
Digits == "0123456789"
Upper == "ABCDEFGHIJKLMNOPQRSTUVWXYZ"
Lower == "abcdefghijklmnopqrstuvwxyz"

\* The index of the one-character string ch in the string s.
IndexOf(ch, s) == CHOOSE i \in 1..Len(s) : SubSeq(s, i, i) = ch

Chars(s) == {SubSeq(s, i, i) : i \in 1..Len(s)}

\* Byte[ch] is the ASCII code of the one-character string ch.
Byte == [ch \in Chars(Digits) \cup Chars(Upper) \cup Chars(Lower)
                  \cup {" ", "+", ",", "-", ".", "/", ":"} |->
           CASE ch \in Chars(Digits) -> 47 + IndexOf(ch, Digits)
             [] ch \in Chars(Upper) -> 64 + IndexOf(ch, Upper)
             [] ch \in Chars(Lower) -> 96 + IndexOf(ch, Lower)
             [] ch = " " -> 32
             [] ch = "+" -> 43
             [] ch = "," -> 44
             [] ch = "-" -> 45
             [] ch = "." -> 46
             [] ch = "/" -> 47
             [] ch = ":" -> 58]

\* The bytes of a Go string literal.
Bytes(s) == [i \in 1..Len(s) |-> Byte[SubSeq(s, i, i)]]

nil == "nil"

\* The byte literals of the source.
char_0 == 48
char_9 == 57
char_space == 32
char_newline == 10
char_tab == 9
char_plus == 43
char_comma == 44
char_colon == 58
char_n == 110
char_m == 109
char_M == 77
char_u == 117
char_U == 85

(***************************************************************************)
(* The byte cursor (type buffer)                                           *)
(***************************************************************************)

EOF == "EOF"

\* buffer{src: timespec, pos: 0}.  reads is not a field of the program: it
\* counts the calls of ReadByte on the buffer, for the statements about the
\* number of reads.
buffer(timespec) == [src |-> timespec, pos |-> 0, reads |-> 0]

\* ReadByte counting the read at the end of src as a byte read.
ReadByte_countsEOF(buf) ==
  IF buf.pos >= Len(buf.src)
    THEN [c |-> 0, err |-> EOF,
          in |-> [buf EXCEPT !.pos = @ + 1, !.reads = @ + 1]]
    ELSE [c |-> buf.src[buf.pos + 1], err |-> nil,
          in |-> [buf EXCEPT !.pos = @ + 1, !.reads = @ + 1]]

\* At the end of src the byte 0 and io.EOF are returned and pos stays.
ReadByte(buf) ==
  IF buf.pos >= Len(buf.src)
    THEN [c |-> 0, err |-> EOF, in |-> [buf EXCEPT !.reads = @ + 1]]
    ELSE [c |-> buf.src[buf.pos + 1], err |-> nil,
          in |-> [buf EXCEPT !.pos = @ + 1, !.reads = @ + 1]]

\* Steps back one byte whenever pos > 0, whatever the last read returned.
UnreadByte(buf) ==
  IF buf.pos <= 0 THEN buf ELSE [buf EXCEPT !.pos = @ - 1]

(***************************************************************************)
(* Character classes and combinators                                       *)
(***************************************************************************)

isdigit(r) == r >= char_0 /\ r <= char_9

isspace(r) == r = char_space \/ r = char_newline \/ r = char_tab

nospace(r) == ~isspace(r)

\* A charclass value is the name of the predicate.
class(name, r) ==
  CASE name = "isdigit" -> isdigit(r)
    [] name = "isspace" -> isspace(r)
    [] name = "nospace" -> nospace(r)

RECURSIVE skipLoop(_, _, _, _)
\* The for loop of skip, and the UnreadByte that follows it.
skipLoop(in, c, err, cls) ==
  LET again(r) == skipLoop(r.in, r.c, r.err, cls) IN
  IF class(cls, c) /\ err = nil
    THEN again(ReadByte(in))
    ELSE [c |-> c, in |-> UnreadByte(in)]

skip(in, cls) ==
  LET first(r) == IF r.c = 0 THEN [c |-> 0, in |-> r.in]
                  ELSE skipLoop(r.in, r.c, r.err, cls)
  IN first(ReadByte(in))

peek(in) ==
  LET unread(r) == [c |-> r.c, in |-> UnreadByte(r.in)] IN unread(ReadByte(in))

expect(in, out, cls) ==
  LET read(r) ==
        IF ~class(cls, r.c)
          THEN [c |-> r.c, ok |-> FALSE, in |-> UnreadByte(r.in), out |-> out]
          ELSE [c |-> r.c, ok |-> TRUE, in |-> r.in, out |-> Append(out, r.c)]
  IN read(ReadByte(in))

RECURSIVE expectBytesLoop(_, _, _, _)
\* The range loop of expectBytes from index i (1-based) of s on.
expectBytesLoop(in, s, i, buf) ==
  LET read(r) ==
        IF r.c # s[i]
          THEN [s |-> Append(buf, r.c), ok |-> FALSE, in |-> UnreadByte(r.in)]
          ELSE expectBytesLoop(r.in, s, i + 1, Append(buf, r.c))
  IN IF i > Len(s) THEN [s |-> <<>>, ok |-> TRUE, in |-> in]
     ELSE read(ReadByte(in))

expectBytes(in, s) == expectBytesLoop(in, s, 1, <<>>)

RECURSIVE anyLoop(_, _, _, _, _)
\* The for loop of any, and the UnreadByte that follows it.
anyLoop(in, out, c, err, cls) ==
  LET again(r) == anyLoop(r.in, Append(out, c), r.c, r.err, cls) IN
  IF class(cls, c) /\ err = nil
    THEN again(ReadByte(in))
    ELSE [in |-> UnreadByte(in), out |-> out]

any(in, out, cls) ==
  LET first(r) == IF r.err # nil THEN [in |-> r.in, out |-> out]
                  ELSE anyLoop(r.in, out, r.c, r.err, cls)
  IN first(ReadByte(in))

RECURSIVE expectNLoop(_, _, _, _, _)
\* The for loop of expectN from iteration i on.  The loop declares its own
\* c, so the c returned after n matches is the zero value of the outer one.
expectNLoop(i, n, in, out, cls) ==
  LET step(e) ==
        IF ~e.ok THEN [c |-> e.c, ok |-> FALSE, in |-> e.in, out |-> e.out]
        ELSE expectNLoop(i + 1, n, e.in, e.out, cls)
  IN IF i >= n THEN [c |-> 0, ok |-> TRUE, in |-> in, out |-> out]
     ELSE step(expect(in, out, cls))

expectN(n, in, out, cls) == expectNLoop(0, n, in, out, cls)

(***************************************************************************)
(* Library functions the parser calls                                      *)
(***************************************************************************)

RECURSIVE digitsValue(_, _, _)
\* The value of the decimal digits s[i..], continuing the value acc.
digitsValue(s, i, acc) ==
  IF i > Len(s) THEN acc
  ELSE digitsValue(s, i + 1, 10 * acc + (s[i] - char_0))

\* strconv.Atoi and strconv.ParseInt(s, 10, 0): an optional sign followed by
\* one or more decimal digits (the inputs stay far below the range of int).
Atoi(s) ==
  LET negative == Len(s) > 0 /\ s[1] = 45
      digits == IF Len(s) > 0 /\ s[1] \in {char_plus, 45} THEN Tail(s) ELSE s
      convert(d) ==
        IF Len(d) = 0 \/ \E i \in 1..Len(d) : ~isdigit(d[i])
          THEN [n |-> 0, err |-> "invalid syntax"]
          ELSE [n |-> IF negative THEN 0 - digitsValue(d, 1, 0)
                      ELSE digitsValue(d, 1, 0),
                err |-> nil]
  IN convert(digits)

\* strings.ToUpper and strings.ToLower on ASCII: 'a'..'z' is 97..122 and
\* 'A'..'Z' is 65..90.
ToUpper(s) == [i \in 1..Len(s) |-> IF s[i] \in 97..122 THEN s[i] - 32 ELSE s[i]]
ToLower(s) == [i \in 1..Len(s) |-> IF s[i] \in 65..90 THEN s[i] + 32 ELSE s[i]]

\* strings.IndexByte(s, c) != -1
IndexByte(s, c) == \E i \in 1..Len(s) : s[i] = c

(***************************************************************************)
(* Timespec and the name tables                                            *)
(***************************************************************************)

\* &Timespec{}
Timespec == [month |-> 0, day |-> 0, year |-> 0, hours |-> 0, minutes |-> 0,
             seconds |-> 0, isNow |-> FALSE, isTomorrow |-> FALSE,
             increments |-> 0, unit |-> 0]

setToday(d) == [d EXCEPT !.year = 0, !.month = 0, !.day = 0]

\* regexp.MustCompile("stem(opt)?") and regexp.MustCompile("stemo?")
re(stem, opt) == [stem |-> Bytes(stem), opt |-> Bytes(opt)]

monthNames == <<re("Jan", "uary"), re("Feb", "ruary"), re("Mar", "ch"),
                re("Apr", "il"), re("May", ""), re("Jun", "e"),
                re("Jul", "y"), re("Aug", "ust"), re("Sep", "tember"),
                re("Oct", "ober"), re("Nov", "ember"), re("Dec", "ember")>>

dayNames == <<re("Mon", "day"), re("Tue", "sday"), re("Wed", "nesday"),
              re("Thu", "rsday"), re("Fri", "day"), re("Sat", "urday"),
              re("Sun", "day")>>

periodNames == <<re("minute", "s"), re("hour", "s"), re("day", "s"),
                 re("week", "s"), re("month", "s"), re("year", "s")>>

\* (*regexp.Regexp).Match: the pattern is not anchored, so it matches when
\* the stem occurs anywhere in buf; the optional tail (r.opt) may match
\* nothing and so never decides the outcome.
Match(r, buf) ==
  \E i \in 0..(Len(buf) - Len(r.stem)) :
     SubSeq(buf, i + 1, i + Len(r.stem)) = r.stem

\* The zero-based index of the first pattern of list that matches, or -1.
findInRegexpList(list, buf) ==
  LET matching == {index \in 1..Len(list) : Match(list[index], buf)}
      first(m) == IF m = {} THEN -1
                  ELSE (CHOOSE index \in m : \A j \in m : index <= j) - 1
  IN first(matching)

\* findMonth with the table index returned as it is (January = 0).
findMonth_zeroBased(buf) == findInRegexpList(monthNames, buf)

findMonth(buf) ==
  LET found(index) == IF index # -1 THEN index + 1 ELSE -1
  IN found(findInRegexpList(monthNames, buf))

\* findDayOfWeek counting the days from 1.
findDayOfWeek_oneBased(buf) ==
  LET shifted(i) == IF i = -1 THEN -1 ELSE i + 1
  IN shifted(findInRegexpList(dayNames, buf))

findDayOfWeek(buf) == findInRegexpList(dayNames, buf)

\* findPeriod counting the periods from 1, as findMonth counts the months.
findPeriod_oneBased(buf) == findInRegexpList(periodNames, buf) + 1

findPeriod(buf) == findInRegexpList(periodNames, buf)

(***************************************************************************)
(* The time rule                                                           *)
(***************************************************************************)

kwPm == Bytes("pm")
kwUTC == Bytes("UTC")
kwNoon == Bytes("noon")
kwMidnight == Bytes("midnight")
kwNow == Bytes("now")
kwNext == Bytes("next")
kwToday == Bytes("today")
kwTomorrow == Bytes("tomorrow")
kwAmPmFirst == Bytes("aApP")

\* What a rule returns: the error, and the cursor and Timespec as it left them.
ret(err, in, spec) == [err |-> err, in |-> in, spec |-> spec]

\* parseMinute comparing the minutes with > instead of >=.
parseMinute_allows60(in, spec) ==
  LET \* minutes, err := strconv.Atoi(string(buf)), and the range check
      convert(a, in1) ==
        IF a.err # nil THEN ret("minute: " \o a.err, in1, spec)
        ELSE IF a.n > 60 THEN ret("minute: invalid minutes", in1, spec)
        ELSE ret(nil, in1, [spec EXCEPT !.minutes = a.n])
      \* c, ok := expectN(2, in, &buf, isdigit)
      digits(e) ==
        IF ~e.ok THEN ret("minute: expected digit", e.in, spec)
        ELSE convert(Atoi(e.out), e.in)
      \* c, _ := in.ReadByte()
      first(r) ==
        IF r.c = 0 THEN ret(nil, r.in, spec)
        ELSE IF r.c # char_colon /\ ~isdigit(r.c)
          THEN ret("minute: expected ':' or digit", r.in, spec)
        ELSE digits(expectN(2, IF isdigit(r.c) THEN UnreadByte(r.in) ELSE r.in,
                            <<>>, "isdigit"))
  IN first(ReadByte(in))

parseMinute(in, spec) ==
  LET \* minutes, err := strconv.Atoi(string(buf)), and the range check
      convert(a, in1) ==
        IF a.err # nil THEN ret("minute: " \o a.err, in1, spec)
        ELSE IF a.n >= 60 THEN ret("minute: invalid minutes", in1, spec)
        ELSE ret(nil, in1, [spec EXCEPT !.minutes = a.n])
      \* c, ok := expectN(2, in, &buf, isdigit)
      digits(e) ==
        IF ~e.ok THEN ret("minute: expected digit", e.in, spec)
        ELSE convert(Atoi(e.out), e.in)
      \* c, _ := in.ReadByte()
      first(r) ==
        IF r.c = 0 THEN ret(nil, r.in, spec)
        ELSE IF r.c # char_colon /\ ~isdigit(r.c)
          THEN ret("minute: expected ':' or digit", r.in, spec)
        ELSE digits(expectN(2, IF isdigit(r.c) THEN UnreadByte(r.in) ELSE r.in,
                            <<>>, "isdigit"))
  IN first(ReadByte(in))

\* parseTimeZone reading two bytes of the timezone name instead of three.
parseTimeZone_twoBytes(in, spec) ==
  LET name(e) ==
        IF ToUpper(e.out) # kwUTC
          THEN ret("timezone: invalid timezone", e.in, spec)
          ELSE ret(nil, e.in, spec)
      first(s) ==
        IF s.c # char_u /\ s.c # char_U THEN ret(nil, s.in, spec)
        ELSE name(expectN(2, s.in, <<>>, "nospace"))
  IN first(skip(in, "isspace"))

parseTimeZone(in, spec) ==
  LET \* expectN(3, in, &buf, nospace); timezone := strings.ToUpper(string(buf))
      name(e) ==
        IF ToUpper(e.out) # kwUTC
          THEN ret("timezone: invalid timezone", e.in, spec)
          ELSE ret(nil, e.in, spec)
      \* c := skip(in, isspace)
      first(s) ==
        IF s.c # char_u /\ s.c # char_U THEN ret(nil, s.in, spec)
        ELSE name(expectN(3, s.in, <<>>, "nospace"))
  IN first(skip(in, "isspace"))

\* parseAmPm adding 12 for "pm" without reducing the hour modulo 12 first.
parseAmPm_noModulo(in, spec) ==
  LET second(c1, r2) ==
        IF r2.err # nil THEN ret("am_pm: EOF", r2.in, spec)
        ELSE IF r2.c # char_m /\ r2.c # char_M
          THEN ret("am_pm: expected 'm'", r2.in, spec)
        ELSE IF ToLower(<<c1, r2.c>>) = kwPm
          THEN ret(nil, r2.in, [spec EXCEPT !.hours = @ + 12])
        ELSE ret(nil, r2.in, spec)
      first(r1) == second(r1.c, ReadByte(r1.in))
  IN first(ReadByte(in))

parseAmPm(in, spec) ==
  LET \* c, err = in.ReadByte(), the second letter
      second(c1, r2) ==
        IF r2.err # nil THEN ret("am_pm: EOF", r2.in, spec)
        ELSE IF r2.c # char_m /\ r2.c # char_M
          THEN ret("am_pm: expected 'm'", r2.in, spec)
        ELSE IF ToLower(<<c1, r2.c>>) = kwPm
          THEN ret(nil, r2.in, [spec EXCEPT !.hours = (@ % 12) + 12])
        ELSE ret(nil, r2.in, spec)
      \* c, err := in.ReadByte(), the first letter
      first(r1) == second(r1.c, ReadByte(r1.in))
  IN first(ReadByte(in))

parseNoon(in, spec) ==
  LET matched(e) ==
        IF ~e.ok THEN ret("noon: expected \"noon\"", e.in, spec)
        ELSE ret(nil, e.in, [spec EXCEPT !.hours = 12])
  IN matched(expectBytes(in, kwNoon))

parseMidnight(in, spec) ==
  LET matched(e) ==
        IF ~e.ok THEN ret("midnight: expected \"midnight\"", e.in, spec)
        ELSE ret(nil, e.in, spec)
  IN matched(expectBytes(in, kwMidnight))

parseClock(in, spec) ==
  LET \* parseTimeZone(in, spec); return nil: its error is not looked at
      zone(ap) ==
        LET drop(tz) == ret(nil, tz.in, tz.spec) IN
        IF ap.err # nil THEN ap ELSE drop(parseTimeZone(ap.in, ap.spec))
      \* c = skip(in, isspace) and the am/pm part; s is what skip returned
      ampm(s, spec2) ==
        zone(IF s.c # 0 /\ IndexByte(kwAmPmFirst, s.c)
               THEN parseAmPm(s.in, spec2)
               ELSE ret(nil, s.in, spec2))
      afterMinute(m) ==
        IF m.err # nil THEN m ELSE ampm(skip(m.in, "isspace"), m.spec)
      \* c = peek(in) and the minute part; p is what peek returned
      minute(p, spec1) ==
        IF p.c = 0 THEN ret("clock: unexpected EOF", p.in, spec1)
        ELSE afterMinute(IF isdigit(p.c) \/ p.c = char_colon
                           THEN parseMinute(p.in, spec1)
                           ELSE ret(nil, p.in, spec1))
      \* hours, err := strconv.Atoi(string(buf)), and the range check
      hours(a, in2) ==
        IF a.err # nil THEN ret("clock: invalid number format", in2, spec)
        ELSE IF a.n > 23 THEN ret("clock: invalid hours", in2, spec)
        ELSE minute(peek(in2), [spec EXCEPT !.hours = a.n])
      \* c, _ = in.ReadByte(), the optional second hour digit
      second(c1, r2) ==
        IF r2.c = 0 THEN hours(Atoi(<<c1>>), r2.in)
        ELSE IF ~isdigit(r2.c)
          THEN hours(Atoi(<<c1>>), skip(UnreadByte(r2.in), "isspace").in)
        ELSE hours(Atoi(<<c1, r2.c>>), r2.in)
      first(r1) == second(r1.c, ReadByte(r1.in))
  IN first(ReadByte(in))

parseTime(in, spec) ==
  LET first(p) ==
        IF isdigit(p.c) THEN parseClock(p.in, spec)
        ELSE IF p.c = char_n THEN parseNoon(p.in, spec)
        ELSE IF p.c = char_m THEN parseMidnight(p.in, spec)
        ELSE ret("time: unexpected character", p.in, spec)
  IN first(peek(in))

(***************************************************************************)
(* The date rule                                                           *)
(***************************************************************************)

parseYear(in, spec) ==
  LET convert(a, in1) ==
        IF a.err # nil THEN ret("year: invalid year format", in1, spec)
        ELSE ret(nil, in1, [spec EXCEPT !.year = a.n])
      \* expectN(4, in, &buf, isdigit): only what it collected is looked at
      digits(e) == convert(Atoi(e.out), e.in)
      first(s) == digits(expectN(4, s.in, <<>>, "isdigit"))
  IN first(skip(in, "isspace"))

parseMonth(in, spec) ==
  LET \* c, _ = in.ReadByte(): a comma starts the year
      comma(r, spec1) ==
        IF r.c = char_comma THEN parseYear(r.in, spec1)
        ELSE ret(nil, UnreadByte(r.in), spec1)
      \* day, err := strconv.Atoi(string(buf))
      convert(a, in1) ==
        IF a.err # nil THEN ret("month: invalid day number", in1, spec)
        ELSE comma(ReadByte(skip(in1, "isspace").in), [spec EXCEPT !.day = a.n])
      \* c, ok := expectN(2, in, &buf, isdigit)
      digits(e) ==
        IF ~e.ok THEN ret("month: expected 2 digits", e.in, spec)
        ELSE convert(Atoi(e.out), e.in)
      first(s) == digits(expectN(2, s.in, <<>>, "isdigit"))
  IN first(skip(in, "isspace"))

parseDate(in, spec) ==
  LET \* month := findMonth(buf)
      byMonth(month, in1) ==
        IF month = -1 THEN ret("date: invalid month name", in1, spec)
        ELSE parseMonth(in1, [spec EXCEPT !.month = month])
      \* day := findDayOfWeek(buf)
      byDay(day, buf, in1) ==
        IF day # -1 THEN ret(nil, in1, [spec EXCEPT !.day = day])
        ELSE byMonth(findMonth(buf), in1)
      \* any(in, &buf, nospace): a is the token and the cursor after it
      token(a) ==
        IF a.out = kwToday THEN ret(nil, a.in, setToday(spec))
        ELSE IF a.out = kwTomorrow
          THEN ret(nil, a.in, [spec EXCEPT !.isTomorrow = TRUE])
        ELSE byDay(findDayOfWeek(a.out), a.out, a.in)
      \* c = skip(in, isspace)
      skipped(s) ==
        IF s.c = char_plus \/ s.c = char_n THEN ret(nil, s.in, spec)
        ELSE token(any(s.in, <<>>, "nospace"))
      \* c := peek(in)
      first(p) ==
        IF p.c = 0 THEN ret("date: unexpected EOF", p.in, spec)
        ELSE skipped(skip(p.in, "isspace"))
  IN first(peek(in))

(***************************************************************************)
(* The increment rule                                                      *)
(***************************************************************************)

parseincrement(in, spec) ==
  LET \* period := findPeriod(buf)
      byPeriod(period, in1, spec1) ==
        IF period = -1 THEN ret("period: invalid period", in1, spec1)
        ELSE ret(nil, in1, [spec1 EXCEPT !.unit = period])
      \* skip(in, isspace); any(in, &buf, nospace)
      token(a, spec1) == byPeriod(findPeriod(a.out), a.in, spec1)
      period(in1, spec1) ==
        token(any(skip(in1, "isspace").in, <<>>, "nospace"), spec1)
      \* c == 'n': expectBytes(in, "next")
      next(e) ==
        IF ~e.ok THEN ret("increment: expected \"next\"", e.in, spec)
        ELSE ret(nil, e.in, [spec EXCEPT !.increments = 1])
      \* c == '+': count, err := strconv.ParseInt(string(buf), 10, 0)
      count(a, in1) ==
        IF a.err # nil THEN ret("increment: " \o a.err, in1, spec)
        ELSE ret(nil, in1, [spec EXCEPT !.increments = a.n])
      plus(d) == count(Atoi(d.out), d.in)
      \* what follows the if/else chain, unless it returned
      counted(k) == IF k.err # nil THEN k ELSE period(k.in, k.spec)
      \* c, _ := in.ReadByte()
      first(r) ==
        IF r.c = 0 THEN ret(nil, r.in, spec)
        ELSE IF r.c = char_n
          THEN counted(next(expectBytes(UnreadByte(r.in), kwNext)))
        ELSE IF r.c = char_plus
          THEN counted(plus(any(skip(r.in, "isspace").in, <<>>, "isdigit")))
        ELSE ret("increment: expected '+'", r.in, spec)
  IN first(ReadByte(skip(in, "isspace").in))

(***************************************************************************)
(* The grammar driver and Parse                                            *)
(***************************************************************************)

\* parseTimespec returning the error of the date rule as it returns that of
\* the time rule.
parseTimespec_dateFatal(in, spec) ==
  LET \* err = parseincrement(in, spec), a failure clears the count
      increment(i) ==
        IF i.err # nil
          THEN ret(nil, i.in, [i.spec EXCEPT !.increments = 0])
          ELSE ret(nil, i.in, i.spec)
      \* err = parseDate(in, spec), a failure is returned
      date(d) ==
        IF d.err # nil THEN d ELSE increment(parseincrement(d.in, d.spec))
      \* err := parseTime(in, spec), a failure is returned
      time(t) == IF t.err # nil THEN t ELSE date(parseDate(t.in, t.spec))
      \* c == 'n': expectBytes(in, "now")
      now(e) ==
        IF ~e.ok THEN ret("timespec: expected \"now\"", e.in, spec)
        ELSE parseincrement(e.in, [spec EXCEPT !.isNow = TRUE])
      \* c := peek(in)
      first(p) ==
        IF p.c = 0 THEN ret("timespec: unexpected EOF", p.in, spec)
        ELSE IF p.c = char_n THEN now(expectBytes(p.in, kwNow))
        ELSE time(parseTime(p.in, spec))
  IN first(peek(in))

\* parseTimespec keeping what a failed date or increment rule has stored.
parseTimespec_keepsFields(in, spec) ==
  LET increment(i) == ret(nil, i.in, i.spec)
      date(d) == increment(parseincrement(d.in, d.spec))
      time(t) == IF t.err # nil THEN t ELSE date(parseDate(t.in, t.spec))
      now(e) ==
        IF ~e.ok THEN ret("timespec: expected \"now\"", e.in, spec)
        ELSE parseincrement(e.in, [spec EXCEPT !.isNow = TRUE])
      first(p) ==
        IF p.c = 0 THEN ret("timespec: unexpected EOF", p.in, spec)
        ELSE IF p.c = char_n THEN now(expectBytes(p.in, kwNow))
        ELSE time(parseTime(p.in, spec))
  IN first(peek(in))

parseTimespec(in, spec) ==
  LET \* err = parseincrement(in, spec), a failure clears the count
      increment(i) ==
        IF i.err # nil
          THEN ret(nil, i.in, [i.spec EXCEPT !.increments = 0])
          ELSE ret(nil, i.in, i.spec)
      \* err = parseDate(in, spec), a failure clears year, month and day
      date(d) ==
        increment(parseincrement(d.in,
          IF d.err # nil
            THEN [d.spec EXCEPT !.year = 0, !.month = 0, !.day = 0]
            ELSE d.spec))
      \* err := parseTime(in, spec), a failure is returned
      time(t) == IF t.err # nil THEN t ELSE date(parseDate(t.in, t.spec))
      \* c == 'n': expectBytes(in, "now")
      now(e) ==
        IF ~e.ok THEN ret("timespec: expected \"now\"", e.in, spec)
        ELSE parseincrement(e.in, [spec EXCEPT !.isNow = TRUE])
      \* c := peek(in)
      first(p) ==
        IF p.c = 0 THEN ret("timespec: unexpected EOF", p.in, spec)
        ELSE IF p.c = char_n THEN now(expectBytes(p.in, kwNow))
        ELSE time(parseTime(p.in, spec))
  IN first(peek(in))

\* The nil *Timespec: a value with none of the fields of a Timespec.
NoTimespec == [isNil |-> TRUE]

\* Parse returns (spec, nil) or (nil, &ParseError{Src, Pos, Msg}); err is
\* nil or names the type of the error, whose fields follow it.
Parse(timespec) ==
  LET returned(r) ==
        IF r.err # nil
          THEN [spec |-> NoTimespec, err |-> "ParseError",
                Src |-> timespec, Pos |-> r.in.pos, Msg |-> r.err]
          ELSE [spec |-> r.spec, err |-> nil]
  IN returned(parseTimespec(buffer(timespec), Timespec))

(***************************************************************************)
(* Resolve, and the functions of package time it calls.  A time.Time is    *)
(* the record [day, sec, offset]: the days since January 1 of year 1 in    *)
(* UTC, the second of that day, and the seconds that the location of the   *)
(* value lies east of UTC.  Two values are the same instant when day and   *)
(* sec agree.                                                              *)
(***************************************************************************)

isLeap(year) == year % 4 = 0 /\ (year % 100 # 0 \/ year % 400 = 0)

\* daysBefore[m + 1] is the number of days of a non-leap year before month
\* m + 1 starts.
daysBefore == <<0, 31, 59, 90, 120, 151, 181, 212, 243, 273, 304, 334, 365>>

\* The days from January 1 of year 1 to January 1 of year.
daysSinceEpoch(year) ==
  LET count(y) == 365 * y + y \div 4 - y \div 100 + y \div 400
  IN count(year - 1)

\* norm of package time: lo brought into 0..base-1, the carry added to hi.
norm(hi, lo, base) == [hi |-> hi + lo \div base, lo |-> lo % base]

\* time.Date(year, month, day, hour, min, sec, 0, time.UTC): every field may
\* lie outside its range and is normalised into the next one.
Date(year, month, day, hour, min, sec) ==
  LET \* ym is the year and month (from 0), dh the day and hour, hm the hour
      \* and minute, ms the minute and second, each after its norm
      instant(ym, dh, hm, ms) ==
        [day |-> daysSinceEpoch(ym.hi) + daysBefore[ym.lo + 1]
                   + (IF isLeap(ym.hi) /\ ym.lo + 1 >= 3 THEN 1 ELSE 0)
                   + dh.hi - 1,
         sec |-> dh.lo * 3600 + hm.lo * 60 + ms.lo,
         offset |-> 0]
      days(ym, hm, ms) == instant(ym, norm(day, hm.hi, 24), hm, ms)
      hours(ym, ms) == days(ym, norm(hour, ms.hi, 60), ms)
  IN hours(norm(year, month - 1, 12), norm(min, sec, 60))

\* time.Date(year, month, day, hour, min, sec, 0, loc) for a location loc
\* that lies offset seconds east of UTC: the instant at which the clocks of
\* loc show these fields.  day and sec stay the UTC day and second of the
\* instant; offset is the location the value carries.
DateIn(year, month, day, hour, min, sec, offset) ==
  LET at(t) == [t EXCEPT !.offset = offset]
  IN at(Date(year, month, day, hour, min, sec - offset))

\* (Time).abs(): the day and second that the clocks of t's location show.
abs(t) ==
  LET shown(s) == [day |-> t.day + s \div 86400, sec |-> s % 86400]
  IN shown(t.sec + t.offset)

\* (Time).Date(): the year, month and day of the day t.day; fromTime passes
\* abs(t), a value in UTC is its own abs.
absDate(t) ==
  LET \* the month and day of the day yday (from 0) of year
      monthDay(year, d) ==
        LET pick(month) ==
              IF d >= daysBefore[month + 2]
                THEN [year |-> year, month |-> month + 2,
                      day |-> d - daysBefore[month + 2] + 1]
                ELSE [year |-> year, month |-> month + 1,
                      day |-> d - daysBefore[month + 1] + 1]
        IN pick(d \div 31)
      inYear(year, yday) ==
        IF isLeap(year) /\ yday = 31 + 29 - 1
          THEN [year |-> year, month |-> 2, day |-> 29]
        ELSE IF isLeap(year) /\ yday > 31 + 29 - 1
          THEN monthDay(year, yday - 1)
        ELSE monthDay(year, yday)
      years(y, d, n) == inYear(y + (n - n \div 4) + 1, d - 365 * (n - n \div 4))
      fours(y, d, n) == years(y + 4 * n, d - 1461 * n, (d - 1461 * n) \div 365)
      hundreds(y, d, n) ==
        fours(y + 100 * (n - n \div 4), d - 36524 * (n - n \div 4),
              (d - 36524 * (n - n \div 4)) \div 1461)
      cycles(d, n) ==
        hundreds(400 * n, d - 146097 * n, (d - 146097 * n) \div 36524)
  IN cycles(t.day, t.day \div 146097)

\* (Time).Clock(): the hour, minute and second of the second t.sec of a day.
Clock(t) ==
  [hour |-> t.sec \div 3600, min |-> (t.sec % 3600) \div 60, sec |-> t.sec % 60]

fromTime(d, t) ==
  LET set(date, clock) ==
        [d EXCEPT !.year = date.year, !.month = date.month, !.day = date.day,
                  !.hours = clock.hour, !.minutes = clock.min,
                  !.seconds = clock.sec]
  IN set(absDate(abs(t)), Clock(abs(t)))

\* addincrement adding a week as one day.
addincrement_weekIsADay(d) ==
  CASE d.unit = 0 -> [d EXCEPT !.minutes = @ + d.increments]
    [] d.unit = 1 -> [d EXCEPT !.hours = @ + d.increments]
    [] d.unit = 2 -> [d EXCEPT !.day = @ + d.increments]
    [] d.unit = 3 -> [d EXCEPT !.day = @ + d.increments]
    [] d.unit = 4 -> [d EXCEPT !.month = @ + d.increments]
    [] d.unit = 5 -> [d EXCEPT !.year = @ + d.increments]
    [] OTHER -> d

\* The units are incrementMinutes = 0 ... incrementYears = 5.
addincrement(d) ==
  CASE d.unit = 0 -> [d EXCEPT !.minutes = @ + d.increments]
    [] d.unit = 1 -> [d EXCEPT !.hours = @ + d.increments]
    [] d.unit = 2 -> [d EXCEPT !.day = @ + d.increments]
    [] d.unit = 3 -> [d EXCEPT !.day = @ + 7 * d.increments]
    [] d.unit = 4 -> [d EXCEPT !.month = @ + d.increments]
    [] d.unit = 5 -> [d EXCEPT !.year = @ + d.increments]
    [] OTHER -> d

\* Resolve leaving isTomorrow out.
Resolve_withoutTomorrow(d, now) ==
  LET date(d3) ==
        [spec |-> d3,
         time |-> Date(d3.year, d3.month, d3.day, d3.hours, d3.minutes,
                       d3.seconds)]
      first(d1) == date(addincrement(d1))
  IN first(IF d.isNow THEN fromTime(d, now) ELSE d)

\* Resolve reading the reference whether isNow is set or not.
Resolve_alwaysFromTime(d, now) ==
  LET date(d3) ==
        [spec |-> d3,
         time |-> Date(d3.year, d3.month, d3.day, d3.hours, d3.minutes,
                       d3.seconds)]
      tomorrow(d1) ==
        date(addincrement(IF d1.isTomorrow THEN [d1 EXCEPT !.day = @ + 1]
                          ELSE d1))
  IN tomorrow(fromTime(d, now))

\* Resolve changes the Timespec it is called on and returns the time: spec
\* is the Timespec afterwards, time the value returned.
Resolve(d, now) ==
  LET date(d3) ==
        [spec |-> d3,
         time |-> Date(d3.year, d3.month, d3.day, d3.hours, d3.minutes,
                       d3.seconds)]
      tomorrow(d1) ==
        date(addincrement(IF d1.isTomorrow THEN [d1 EXCEPT !.day = @ + 1]
                          ELSE d1))
  IN tomorrow(IF d.isNow THEN fromTime(d, now) ELSE d)

(***************************************************************************)
(* The inputs                                                              *)
(***************************************************************************)

\* Hours 0..MaxHour, minutes 0..MaxMinute and days 0..MaxDay are written
\* into the inputs; each range goes past the largest legal value.
MaxHour == 25
MaxMinute == 61
MaxDay == 33

Digit(n) == SubSeq(Digits, n + 1, n + 1)
TwoDigits(n) == Digit(n \div 10) \o Digit(n % 10)

\* The hour h written with hd digits.
HourText(h, hd) == IF hd = 1 THEN Digit(h) ELSE TwoDigits(h)

\* The minutes: absent (-1), or two digits after an optional colon.
MinuteText(min, colon) ==
  IF min = -1 THEN "" ELSE (IF colon THEN ":" ELSE "") \o TwoDigits(min)

HourForms == {<<h, hd>> \in (0..MaxHour) \X {1, 2} : hd = 1 => h <= 9}

Blank == {"", " "}

MonthFull == <<"January", "February", "March", "April", "May", "June", "July",
               "August", "September", "October", "November", "December">>
MonthAbbr == <<"Jan", "Feb", "Mar", "Apr", "May", "Jun", "Jul", "Aug", "Sep",
               "Oct", "Nov", "Dec">>
DayFull == <<"Monday", "Tuesday", "Wednesday", "Thursday", "Friday",
             "Saturday", "Sunday">>
DayAbbr == <<"Mon", "Tue", "Wed", "Thu", "Fri", "Sat", "Sun">>

AmPmTexts == {"am", "pm", "AM", "PM", "aM", "pM", "Am", "Pm"}
ZoneTexts == {"UTC", "utc", "uTC", "UtX", "U", "ux"}
TimeTexts == {"", "12:00", "5", "0930"}

\* What follows the day number: nothing, or a comma and a year.
YearForms ==
  {[comma |-> FALSE, year |-> "", text |-> ""]}
  \cup {[comma |-> TRUE, year |-> "2010", text |-> w1 \o "," \o w2 \o "2010"] :
          w1 \in Blank, w2 \in Blank}
  \cup {[comma |-> TRUE, year |-> y, text |-> ", " \o y] :
          y \in {"15", "1", "201", ""}}

\* The month names as they are written: <<index, name>>.
MonthForms == {<<mo, MonthFull[mo]>> : mo \in 1..12}
                \cup {<<mo, MonthAbbr[mo]>> : mo \in 1..12}

Weekdays == {DayFull[i] : i \in 1..7} \cup {DayAbbr[i] : i \in 1..7}

DateWords == {"today", "tomorrow"} \cup {DayFull[i] : i \in 1..7}
               \cup {DayAbbr[i] : i \in 1..7} \cup {"Foo", "02"}

\* A clock time and nothing else.
ClockInput(hf, min, colon) ==
  [fam |-> "clock", h |-> hf[1], hd |-> hf[2], min |-> min, colon |-> colon,
   text |-> HourText(hf[1], hf[2]) \o MinuteText(min, colon)]

\* A clock time followed by an am/pm suffix, a timezone, or both; base is
\* the text without the timezone.
SuffixInput(hf, m, ap, tz) ==
  [fam |-> "suffix", h |-> hf[1], hd |-> hf[2], min |-> m[1], colon |-> m[2],
   ampm |-> ap[2], tz |-> tz[2],
   base |-> HourText(hf[1], hf[2]) \o MinuteText(m[1], m[2]) \o ap[1] \o ap[2],
   text |-> HourText(hf[1], hf[2]) \o MinuteText(m[1], m[2]) \o ap[1] \o ap[2]
              \o tz[1] \o tz[2]]

\* [time] month-name day-number [, year]
DateInput(t, mf, dd, yf) ==
  [fam |-> "date", time |-> t, month |-> mf[1], name |-> mf[2], dd |-> dd,
   comma |-> yf.comma, year |-> yf.year,
   text |-> t \o (IF t = "" THEN "" ELSE " ") \o mf[2] \o " " \o TwoDigits(dd)
              \o yf.text]

\* [time] followed by a one-word date.
WordInput(t, w) ==
  [fam |-> "word", time |-> t, word |-> w,
   text |-> t \o (IF t = "" THEN "" ELSE " ") \o w]

\* "noon" or "midnight", then optionally a date and an increment.
KeywordInput(kw, d, i) ==
  [fam |-> "keyword", kw |-> kw, date |-> d, inc |-> i, text |-> kw \o d \o i]

PeriodNames == <<"minute", "hour", "day", "week", "month", "year">>

\* Tokens that are no name of a table, some of which contain one.
OtherDateTokens == {"xSunx", "Mayday", "Sund", "Januar", "Foo", "mon", "Ma"}
OtherPeriodTokens == {"birthdays", "fortnights", "dayz", "Days", "wek"}

\* One token for the date rule, or "+1 " and one token for the period of the
\* increment rule; exact says that the token is a name of the table (full or
\* abbreviated, singular or plural).
TokenInput(kind, token, exact) ==
  [fam |-> "token", kind |-> kind, token |-> token, exact |-> exact,
   text |-> (IF kind = "period" THEN "+1 " ELSE "") \o token]

\* The largest count written into an increment.
MaxCount == 12

\* The count n as it is written: without or with a leading zero.
CountTexts(n) ==
  IF n <= 9 THEN {Digit(n), "0" \o Digit(n)} ELSE {TwoDigits(n)}

Blanks == {"", " ", "  "}

\* "+" w1 N w2 P: a count and the period unit (counted from 0), with the
\* plural s or without.
PlusInput(w1, n, ntext, w2, unit, plural) ==
  [fam |-> "increment", word |-> "+", count |-> n, unit |-> unit,
   text |-> "+" \o w1 \o ntext \o w2 \o PeriodNames[unit + 1]
              \o (IF plural THEN "s" ELSE "")]

\* "next" w P
NextInput(w, unit, plural) ==
  [fam |-> "increment", word |-> "next", count |-> 1, unit |-> unit,
   text |-> "next" \o w \o PeriodNames[unit + 1] \o (IF plural THEN "s" ELSE "")]

\* The parts of a timespec, each written correctly or not.
GoodHeads == {"now", "12:00", "5 pm", "0930", "13 UTC", "5"}
BadHeads == {"25:00", "12:60", "x"}
GoodDates == {"", " Feb 02", " today", " tomorrow"}
BadDates == {" Foo", " Feb 2", " pq", " nope"}
GoodIncrements == {"", " + 1 day", " next week"}
BadIncrements == {" + 3 fortnights", " + x", " next"}
Trailers == {"", " x", "x", " pq", " 12"}

\* head [date] [increment] and what trails them.
SegmentInput(head, date, inc, trail) ==
  [fam |-> "segment", head |-> head, date |-> date, inc |-> inc,
   trail |-> trail, text |-> head \o date \o inc \o trail]

\* The days of month m of year y.
DaysInMonth(y, m) ==
  IF m = 2 THEN (IF y % 4 = 0 /\ (y % 100 # 0 \/ y % 400 = 0) THEN 29 ELSE 28)
  ELSE IF m \in {4, 6, 9, 11} THEN 30
  ELSE 31

\* The explicit dates run from January 1, 2010 to December 31 of LastYear.
LastYear == 2012

\* A Timespec literal, as the tests of Resolve write them.
MadeInput(at) == [fam |-> "made", at |-> at, text |-> ""]

\* A text for Parse whose result is resolved; date is its date word.
ResolveInput(time, date, inc) ==
  [fam |-> "resolve", time |-> time, date |-> date, inc |-> inc,
   text |-> time \o (IF date = "" THEN "" ELSE " ") \o date \o inc]

\* The reference times handed to Resolve.
RefTime(year, month, day, hour, min, sec) ==
  [year |-> year, month |-> month, day |-> day, hour |-> hour, min |-> min,
   sec |-> sec]

RefTimes == {RefTime(2010, 1, 1, 15, 10, 0), RefTime(2010, 1, 1, 15, 10, 23),
             RefTime(2010, 1, 1, 12, 0, 0), RefTime(2010, 1, 31, 23, 59, 59),
             RefTime(2012, 2, 29, 0, 0, 1), RefTime(2011, 12, 31, 6, 30, 0)}

\* The locations of the reference times, in seconds east of UTC: UTC, as in
\* the tests, and what time.Now() has on a machine two hours east or five
\* hours west of it.
Zones == {0, 2 * 3600, -5 * 3600}

\* The time.Time of the reference ref in the location zone.
RefValue(ref, zone) ==
  DateIn(ref.year, ref.month, ref.day, ref.hour, ref.min, ref.sec, zone)

\* One Timespec is resolved at most MaxCalls times.
MaxCalls == 3

\* The sources of the cursor: every string of at most MaxSrc bytes over the
\* NUL byte, a digit, a blank and the letters of "noon" and "now".
MaxSrc == 4

CursorBytes == {0, char_0, char_space, char_n, 111}

CursorInput(bytes) == [fam |-> "cursor", text |-> "", bytes |-> bytes]

(***************************************************************************)
(* The state machine: an input is chosen, then one entry point is called   *)
(* on it, the way Parse and the package's tests call them.                 *)
(***************************************************************************)

\* Nothing has been called yet on the chosen input.
Start ==
  /\ src = Bytes(inp.text)
  /\ rule = "none"
  /\ result = [spec |-> Timespec, err |-> nil]

InitClock ==
  /\ \E hf \in HourForms, min \in -1..MaxMinute, colon \in BOOLEAN :
        inp = ClockInput(hf, min, colon)
  /\ Start

InitSuffix ==
  /\ \E hf \in HourForms, m \in {<<-1, FALSE>>, <<30, TRUE>>, <<30, FALSE>>},
        ap \in {<<"", "">>} \cup (Blank \X AmPmTexts),
        tz \in {<<"", "">>} \cup (Blank \X ZoneTexts) :
        inp = SuffixInput(hf, m, ap, tz)
  /\ Start

InitDate ==
  /\ \/ \E t \in TimeTexts, mf \in MonthForms, dd \in 0..MaxDay, yf \in YearForms :
          inp = DateInput(t, mf, dd, yf)
     \/ \E t \in TimeTexts, w \in DateWords : inp = WordInput(t, w)
  /\ Start

InitKeyword ==
  /\ \E kw \in {"noon", "midnight"},
        d \in {"", " Feb 02", " today", " tomorrow", " Tue"},
        i \in {"", " + 1 day", " next week", "+2 hours"} :
        inp = KeywordInput(kw, d, i)
  /\ Start

InitToken ==
  /\ \/ \E i \in 1..12 : \E t \in {MonthFull[i], MonthAbbr[i]} :
          inp = TokenInput("date", t, TRUE)
     \/ \E i \in 1..7 : \E t \in {DayFull[i], DayAbbr[i]} :
          inp = TokenInput("date", t, TRUE)
     \/ \E t \in OtherDateTokens : inp = TokenInput("date", t, FALSE)
     \/ \E i \in 1..6 : \E t \in {PeriodNames[i], PeriodNames[i] \o "s"} :
          inp = TokenInput("period", t, TRUE)
     \/ \E t \in OtherPeriodTokens : inp = TokenInput("period", t, FALSE)
  /\ Start

InitIncrement ==
  /\ \/ \E w1 \in Blanks, n \in 0..MaxCount, w2 \in Blanks, unit \in 0..5,
           plural \in BOOLEAN :
          \E ntext \in CountTexts(n) :
             inp = PlusInput(w1, n, ntext, w2, unit, plural)
     \/ \E w \in Blanks, unit \in 0..5, plural \in BOOLEAN :
          inp = NextInput(w, unit, plural)
  /\ Start

InitSegment ==
  /\ \E head \in GoodHeads \cup BadHeads, date \in GoodDates \cup BadDates,
        inc \in GoodIncrements \cup BadIncrements, trail \in Trailers :
        inp = SegmentInput(head, date, inc, trail)
  /\ Start

\* What Resolve is called on: a Timespec literal, or the result of Parse.
InitResolve ==
  \/ /\ \/ \E count \in 0..MaxCount, unit \in 0..5 :
             inp = MadeInput([Timespec EXCEPT !.isNow = TRUE,
                                              !.increments = count,
                                              !.unit = unit])
        \/ \E y \in 2010..LastYear, m \in 1..12, tomorrow \in BOOLEAN :
             \E d \in 1..DaysInMonth(y, m) :
                inp = MadeInput([Timespec EXCEPT !.year = y, !.month = m,
                                                 !.day = d, !.hours = 15,
                                                 !.minutes = 10,
                                                 !.isTomorrow = tomorrow])
     /\ src = Bytes(inp.text)
     /\ rule = "made"
     /\ result = [spec |-> inp.at, err |-> nil]
  \/ /\ \/ \E time \in {"12:00", "9:30 pm", "0000"},
              date \in {"", "today", "tomorrow"} \cup Weekdays :
             inp = ResolveInput(time, date, "")
        \/ \E inc \in {"", " next week", " + 1 day", " + 90 minutes"} :
             inp = ResolveInput("now", "", inc)
     /\ Start

Init ==
  \/ InitClock
  \/ InitSuffix
  \/ InitDate
  \/ InitKeyword
  \/ InitToken
  \/ InitIncrement
  \/ InitSegment

\* spec, err := Parse(src)
CallParse ==
  /\ rule \in {"none", "buffer"}
  /\ rule' = "Parse"
  /\ result' = Parse(src)
  /\ UNCHANGED <<inp, src>>

\* What a direct call of a rule leaves behind: the Timespec it was given,
\* the error it returned and the cursor position.
called(r) == [spec |-> r.spec, err |-> r.err, pos |-> r.in.pos]

\* result := Timespec{}; err := parseTime(buffer{src, 0}, &result)
CallParseTime ==
  /\ rule = "none"
  /\ rule' = "parseTime"
  /\ result' = called(parseTime(buffer(src), Timespec))
  /\ UNCHANGED <<inp, src>>

\* result := Timespec{}; err := parseDate(buffer{src, 0}, &result)
CallParseDate ==
  /\ rule = "none"
  /\ rule' = "parseDate"
  /\ result' = called(parseDate(buffer(src), Timespec))
  /\ UNCHANGED <<inp, src>>

\* result := Timespec{}; err := parseincrement(buffer{src, 0}, &result)
CallParseIncrement ==
  /\ rule = "none"
  /\ rule' = "parseincrement"
  /\ result' = called(parseincrement(buffer(src), Timespec))
  /\ UNCHANGED <<inp, src>>

\* then := at.Resolve(now), on a Timespec literal or on what Parse returned;
\* at is the Timespec before the call and spec the same Timespec after it.
\* spec is the Timespec after the call and at the Timespec before it, now
\* the fields of the reference, ref its time.Time, time the value returned,
\* first the value the first call returned, calls the number of calls.
CallResolve ==
  /\ rule \in {"Parse", "made"}
  /\ result.err = nil
  /\ \E ref \in RefTimes, zone \in Zones :
        LET resolved(now, r) ==
              [spec |-> r.spec, err |-> nil, at |-> result.spec,
               now |-> ref, ref |-> now, time |-> r.time, first |-> r.time,
               calls |-> 1]
            call(now) == resolved(now, Resolve(result.spec, now))
        IN result' = call(RefValue(ref, zone))
  /\ rule' = "Resolve"
  /\ UNCHANGED <<inp, src>>

\* Resolve is called once more on the same Timespec with the same reference.
CallResolveAgain ==
  /\ rule \in {"Resolve", "ResolveAgain"}
  /\ result.calls < MaxCalls
  /\ LET resolved(r) == [result EXCEPT !.spec = r.spec, !.time = r.time,
                                        !.calls = @ + 1]
     IN result' = resolved(Resolve(result.spec, result.ref))
  /\ rule' = "ResolveAgain"
  /\ UNCHANGED <<inp, src>>

\* A buffer on a source is created; nothing has been read.  in is the
\* cursor and before the cursor ahead of the last call; c, err, ok and out
\* are what the last call returned or appended.
InitCursor ==
  /\ \E n \in 0..MaxSrc : \E bytes \in [1..n -> CursorBytes] :
        inp = CursorInput(bytes)
  /\ src = inp.bytes
  /\ rule = "buffer"
  /\ result = [in |-> buffer(src), c |-> 0, err |-> nil, ok |-> TRUE,
               out |-> <<>>, before |-> buffer(src)]

\* The cursor a call starts on: it counts its own reads.
cursor == [result.in EXCEPT !.reads = 0]

CallReadByte ==
  /\ inp.fam = "cursor"
  /\ rule # "Parse"
  /\ LET read(r) == [in |-> r.in, c |-> r.c, err |-> r.err, ok |-> TRUE,
                     out |-> <<>>, before |-> cursor]
     IN result' = read(ReadByte(cursor))
  /\ rule' = "ReadByte"
  /\ UNCHANGED <<inp, src>>

CallPeek ==
  /\ inp.fam = "cursor"
  /\ rule # "Parse"
  /\ LET peeked(r) == [in |-> r.in, c |-> r.c, err |-> nil, ok |-> TRUE,
                       out |-> <<>>, before |-> cursor]
     IN result' = peeked(peek(cursor))
  /\ rule' = "peek"
  /\ UNCHANGED <<inp, src>>

CallSkip ==
  /\ inp.fam = "cursor"
  /\ rule # "Parse"
  /\ LET skipped(r) == [in |-> r.in, c |-> r.c, err |-> nil, ok |-> TRUE,
                        out |-> <<>>, before |-> cursor]
     IN result' = skipped(skip(cursor, "isspace"))
  /\ rule' = "skip"
  /\ UNCHANGED <<inp, src>>

\* any is called on an empty buf with the class isdigit or nospace.
CallAny ==
  /\ inp.fam = "cursor"
  /\ rule # "Parse"
  /\ \E cls \in {"isdigit", "nospace"} :
        LET taken(r) == [in |-> r.in, c |-> 0, err |-> nil, ok |-> TRUE,
                         out |-> r.out, before |-> cursor, cls |-> cls]
        IN result' = taken(any(cursor, <<>>, cls))
  /\ rule' = "any"
  /\ UNCHANGED <<inp, src>>

\* expectN is called on an empty buf for 2 or 4 digits or 3 bytes that are
\* not whitespace.
CallExpectN ==
  /\ inp.fam = "cursor"
  /\ rule # "Parse"
  /\ \E call \in {<<2, "isdigit">>, <<4, "isdigit">>, <<3, "nospace">>} :
        LET expected(r) == [in |-> r.in, c |-> r.c, err |-> nil, ok |-> r.ok,
                            out |-> r.out, before |-> cursor,
                            n |-> call[1], cls |-> call[2]]
        IN result' = expected(expectN(call[1], cursor, <<>>, call[2]))
  /\ rule' = "expectN"
  /\ UNCHANGED <<inp, src>>

CallExpectBytes ==
  /\ inp.fam = "cursor"
  /\ rule # "Parse"
  /\ \E s \in {kwNow, kwNoon, kwNext, kwMidnight} :
        LET expected(r) == [in |-> r.in, c |-> 0, err |-> nil, ok |-> r.ok,
                            out |-> r.s, before |-> cursor, s |-> s]
        IN result' = expected(expectBytes(cursor, s))
  /\ rule' = "expectBytes"
  /\ UNCHANGED <<inp, src>>

NextCursor ==
  \/ CallParse
  \/ CallReadByte
  \/ CallPeek
  \/ CallSkip
  \/ CallAny
  \/ CallExpectN
  \/ CallExpectBytes

Next == CallParse \/ CallParseTime \/ CallParseDate \/ CallParseIncrement

NextResolve == CallParse \/ CallResolve \/ CallResolveAgain

Spec == Init /\ [][Next]_vars

\* The same calls on the inputs of one family.
SpecClock == InitClock /\ [][Next]_vars
SpecSuffix == InitSuffix /\ [][Next]_vars
SpecDate == InitDate /\ [][Next]_vars
SpecKeyword == InitKeyword /\ [][Next]_vars
SpecToken == InitToken /\ [][Next]_vars
SpecIncrement == InitIncrement /\ [][Next]_vars
SpecSegment == InitSegment /\ [][Next]_vars

\* Parse and Resolve on the Timespec literals and the texts to resolve.
SpecResolve == InitResolve /\ [][NextResolve]_vars

SpecCursor == InitCursor /\ [][NextCursor]_vars

(***************************************************************************)
(* Properties                                                              *)
(***************************************************************************)

\* The minutes an input of the clock or suffix family denotes.
ClockMinutes == IF inp.min = -1 THEN 0 ELSE inp.min

\* The digits of an input of the clock or suffix family form a clock time of
\* the grammar: one or two hour digits, then nothing, a colon and two minute
\* digits, or (after two hour digits only) the two minute digits directly.
ClockShape == inp.min = -1 \/ inp.colon \/ inp.hd = 2

\* The am/pm texts that lowercase to "pm".
IsPm(t) == t \in {"pm", "PM", "pM", "Pm"}

\* The timezone texts that uppercase to "UTC".
IsUTC(t) == t \in {"UTC", "utc", "uTC"}

\* C1: Parse of a clock string "H", "HH", "H:MM" or "HH:MM" with H <= 23 and
\* MM <= 59 and nothing after it succeeds with hours = H and minutes = MM
\* (0 when absent).
C1_ClockStringParses ==
  (/\ rule = "Parse"
   /\ inp.fam = "clock"
   /\ inp.h <= 23
   /\ inp.min = -1 \/ (inp.colon /\ inp.min <= 59))
  => (/\ result.err = nil
      /\ result.spec.hours = inp.h
      /\ result.spec.minutes = ClockMinutes)

\* C2: Parse of "noon" or "midnight", alone or followed by a date and/or an
\* increment, succeeds with hours = 12 (noon) or 0 (midnight) and minutes = 0.
C2_KeywordIsATime ==
  (rule = "Parse" /\ inp.fam = "keyword")
  => (/\ result.err = nil
      /\ result.spec.hours = (IF inp.kw = "noon" THEN 12 ELSE 0)
      /\ result.spec.minutes = 0)

C4_MidnightIs12am ==
  (/\ rule = "parseTime"
   /\ inp.fam = "suffix"
   /\ inp.text \in {"12 am", "12 pm"})
  => LET k == parseTime(buffer(IF inp.ampm = "am" THEN kwMidnight ELSE kwNoon),
                        Timespec)
     IN /\ result.err = nil
        /\ k.err = nil
        /\ result.spec.hours = k.spec.hours
        /\ result.spec.minutes = k.spec.minutes

\* C5: the time rule on a clock time followed by optional whitespace and
\* "UTC" in any mix of case succeeds, leaves the cursor after the three
\* bytes, and leaves the hours and minutes that the same clock time without
\* the suffix leaves.
C5_UTCSuffix ==
  (/\ rule = "parseTime"
   /\ inp.fam = "suffix"
   /\ ClockShape
   /\ IsUTC(inp.tz)
   /\ inp.h <= 23)
  => LET b == parseTime(buffer(Bytes(inp.base)), Timespec)
     IN /\ result.err = nil
        /\ result.pos = Len(src)
        /\ result.spec.hours = b.spec.hours
        /\ result.spec.minutes = b.spec.minutes
        /\ result.spec.minutes = ClockMinutes
        /\ inp.ampm = "" => result.spec.hours = inp.h

\* A mixed-case timezone after whitespace has been consumed: "12:30 uTC".
C5_Witness ==
  /\ rule = "parseTime"
  /\ inp.fam = "suffix"
  /\ inp.text = "12:30 uTC"
  /\ result.err = nil
  /\ result.pos = 9
  /\ result.spec.hours = 12
  /\ result.spec.minutes = 30

\* C6: Parse of a clock time followed by a token that starts with u or U and
\* does not spell UTC fails with the invalid-timezone error.
C6_BadTimezoneFails ==
  (/\ rule = "Parse"
   /\ inp.fam = "suffix"
   /\ inp.tz # ""
   /\ ~IsUTC(inp.tz)
   /\ ClockShape
   /\ inp.h <= 23)
  => (result.err # nil /\ result.Msg = "timezone: invalid timezone")

C8_TimeThenMonth ==
  (rule = "Parse" /\ inp.fam = "date" /\ inp.time # "" /\ ~inp.comma)
  => (/\ result.err = nil
      /\ result.spec.month = inp.month
      /\ result.spec.day = inp.dd)

\* C9: the date rule on a month-name date whose comma is followed by a year
\* of one, two or three digits fails with the invalid-year error and stores
\* no year.
C9_ShortYearRejected ==
  (/\ rule = "parseDate"
   /\ inp.fam = "date"
   /\ inp.time = ""
   /\ inp.comma
   /\ Len(inp.year) \in 1..3)
  => (result.err = "year: invalid year format" /\ result.spec.year = 0)

\* C10: a Timespec returned by a successful Parse has month in 0..12 and
\* day in 0..31.
C10_MonthAndDayInRange ==
  (rule = "Parse" /\ result.err = nil)
  => (result.spec.month \in 0..12 /\ result.spec.day \in 0..31)

\* C11: a token that is not exactly a name of a table (full or abbreviated,
\* singular or plural) is not found: the date rule on such a token fails with
\* the invalid-month-name error and the increment rule on such a period
\* fails with the invalid-period error.
C11_OnlyExactNamesMatch ==
  /\ (rule = "parseDate" /\ inp.fam = "token" /\ inp.kind = "date"
        /\ ~inp.exact)
     => result.err = "date: invalid month name"
  /\ (rule = "parseincrement" /\ inp.fam = "token" /\ inp.kind = "period"
        /\ ~inp.exact)
     => result.err = "period: invalid period"

\* C12: the increment rule on "+" N P gives increments = N and the unit of P
\* in the order minutes, hours, days, weeks, months, years; on "next" P it
\* gives increments = 1 and the unit of P; blanks are optional everywhere.
C12_IncrementRule ==
  (rule = "parseincrement" /\ inp.fam = "increment")
  => (/\ result.err = nil
      /\ result.spec = [Timespec EXCEPT !.increments = inp.count,
                                        !.unit = inp.unit])

\* "+20"-style input without any blank has been parsed: "+12months".
C12_Witness ==
  /\ rule = "parseincrement"
  /\ inp.fam = "increment"
  /\ inp.text = "+12months"
  /\ result.err = nil
  /\ result.spec.increments = 12
  /\ result.spec.unit = 4

\* C13: for an input whose first byte is not 'n', Parse succeeds exactly when
\* the time rule succeeds on it, and a failure of Parse is the failure of the
\* time rule, at the position where that rule stopped.
C13_OnlyTheTimeRuleIsFatal ==
  (rule = "Parse" /\ Len(src) > 0 /\ src[1] # char_n)
  => LET same(t) ==
           /\ result.err = nil <=> t.err = nil
           /\ result.err # nil => (result.Msg = t.err /\ result.Pos = t.in.pos)
     IN same(parseTime(buffer(src), Timespec))

\* Parse succeeded on a valid time followed by a date the date rule rejects
\* and an increment the increment rule rejects.
C13_Witness ==
  /\ rule = "Parse"
  /\ inp.fam = "segment"
  /\ inp.text = "12:00 Feb 2 + x"
  /\ parseDate(buffer(Bytes(" Feb 2")), Timespec).err # nil
  /\ result.err = nil
  /\ result.spec.hours = 12
  /\ result.spec.month = 0
  /\ result.spec.increments = 0

\* C14: when the text before the increment is valid and the increment is
\* not, Parse succeeds with increments = 0, after a time and date and after
\* "now" alike.
C14_IncrementFailureIsAbsent ==
  (/\ rule = "Parse"
   /\ inp.fam = "segment"
   /\ inp.head \in GoodHeads
   /\ inp.date \in GoodDates
   /\ inp.head = "now" => inp.date = ""
   /\ inp.inc \in BadIncrements
   /\ inp.trail = "")
  => (result.err = nil /\ result.spec.increments = 0)

\* C15: when a prefix of the input is a complete timespec, "now [increment]"
\* or "time [date] [increment]", Parse succeeds whatever follows the prefix.
C15_TrailingInputAccepted ==
  (/\ rule = "Parse"
   /\ inp.fam = "segment"
   /\ inp.head \in GoodHeads
   /\ inp.date \in GoodDates
   /\ inp.head = "now" => inp.date = ""
   /\ inp.inc \in GoodIncrements)
  => result.err = nil

HourDigits ==
  IF inp.hd = 1 /\ inp.min # -1 /\ ~inp.colon
    THEN 10 * inp.h + inp.min \div 10
    ELSE inp.h

Tomorrow(c) ==
  IF c.day < DaysInMonth(c.year, c.month) THEN [c EXCEPT !.day = @ + 1]
  ELSE IF c.month < 12 THEN [c EXCEPT !.month = @ + 1, !.day = 1]
  ELSE [year |-> c.year + 1, month |-> 1, day |-> 1]

RECURSIVE AddDays(_, _)
\* The calendar day n days after c: within the month of c, or counted on
\* from the first day of the next month.
AddDays(c, n) ==
  IF c.day + n <= DaysInMonth(c.year, c.month) THEN [c EXCEPT !.day = @ + n]
  ELSE AddDays(Tomorrow([c EXCEPT !.day = DaysInMonth(c.year, c.month)]),
               n - (DaysInMonth(c.year, c.month) - c.day + 1))

\* The calendar day and second of the day that lie count units after the
\* reference ref: minutes and hours are added to the clock, days and weeks to
\* the day, months and years to their fields, and what overflows a field is
\* carried into the next.
NowPlus(ref, count, unit) ==
  LET seconds == ref.hour * 3600 + ref.min * 60 + ref.sec
                   + (IF unit = 0 THEN 60 * count
                      ELSE IF unit = 1 THEN 3600 * count ELSE 0)
      months == (ref.month - 1) + (IF unit = 4 THEN count ELSE 0)
      year == ref.year + (IF unit = 5 THEN count ELSE 0) + months \div 12
      days == (ref.day - 1) + seconds \div 86400
                + (IF unit = 2 THEN count ELSE IF unit = 3 THEN 7 * count ELSE 0)
  IN [date |-> AddDays([year |-> year, month |-> (months % 12) + 1, day |-> 1],
                       days),
      sec |-> seconds % 86400]

\* C18: Resolve of a Timespec with isNow and the increment (count, unit)
\* returns the reference time with count added to the field of the unit,
\* normalised by the calendar; the seconds of the reference are kept.
C18_ResolveNow ==
  (rule = "Resolve" /\ result.at.isNow)
  => LET expected(e) ==
           /\ absDate(result.time) = e.date
           /\ result.time.sec = e.sec
           /\ Clock(result.time).sec = result.now.sec
     IN expected(NowPlus(result.now, result.at.increments, result.at.unit))

\* {isNow, +5 weeks} resolved against 2010-01-01T15:10:00Z gave
\* 2010-02-05T15:10:00Z.
C18_Witness ==
  /\ rule = "Resolve"
  /\ inp.fam = "made"
  /\ result.at.isNow
  /\ result.at.increments = 5
  /\ result.at.unit = 3
  /\ result.now = RefTime(2010, 1, 1, 15, 10, 0)
  /\ absDate(result.time) = [year |-> 2010, month |-> 2, day |-> 5]
  /\ Clock(result.time) = [hour |-> 15, min |-> 10, sec |-> 0]

\* C19: Resolve of a Timespec with an explicit date and clock time and
\* isTomorrow returns the day after that date at the same clock time.
C19_ExplicitDateTomorrow ==
  (/\ rule = "Resolve"
   /\ inp.fam = "made"
   /\ ~result.at.isNow
   /\ result.at.isTomorrow)
  => (/\ absDate(result.time)
           = Tomorrow([year |-> result.at.year, month |-> result.at.month,
                       day |-> result.at.day])
      /\ Clock(result.time)
           = [hour |-> result.at.hours, min |-> result.at.minutes, sec |-> 0])

\* The last day of a year has been resolved to the first day of the next.
C19_Witness ==
  /\ rule = "Resolve"
  /\ inp.fam = "made"
  /\ result.at.isTomorrow
  /\ result.at.year = 2010
  /\ result.at.month = 12
  /\ result.at.day = 31
  /\ absDate(result.time) = [year |-> 2011, month |-> 1, day |-> 1]
  /\ Clock(result.time) = [hour |-> 15, min |-> 10, sec |-> 0]

\* C20: Resolve of a parsed clock time with the date "today" or no date
\* returns that clock time on the day of the reference, and with the date
\* "tomorrow" on the day after it.
C20_ResolveTodayAndTomorrow ==
  (/\ rule = "Resolve"
   /\ inp.fam = "resolve"
   /\ inp.date \in {"", "today", "tomorrow"}
   /\ ~result.at.isNow)
  => (/\ absDate(result.time)
           = (IF inp.date = "tomorrow"
                THEN Tomorrow([year |-> result.now.year,
                               month |-> result.now.month,
                               day |-> result.now.day])
                ELSE [year |-> result.now.year, month |-> result.now.month,
                      day |-> result.now.day])
      /\ Clock(result.time)
           = [hour |-> result.at.hours, min |-> result.at.minutes, sec |-> 0])

\* C21: Resolve of a Timespec with an explicit date and clock time, without
\* isNow, isTomorrow and increment, returns that date and time whatever the
\* reference is: every other reference gives the value this one gave.
C21_ReferenceIgnored ==
  (/\ rule = "Resolve"
   /\ inp.fam = "made"
   /\ ~result.at.isNow
   /\ ~result.at.isTomorrow
   /\ result.at.increments = 0)
  => (/\ absDate(result.time)
           = [year |-> result.at.year, month |-> result.at.month,
              day |-> result.at.day]
      /\ Clock(result.time)
           = [hour |-> result.at.hours, min |-> result.at.minutes, sec |-> 0]
      /\ \A other \in RefTimes, zone \in Zones :
            Resolve(result.at, RefValue(other, zone)).time = result.time)

\* February 29, 2012, 15:10 has been resolved against the reference
\* 2010-01-31T23:59:59 of a location five hours west of UTC.
C21_Witness ==
  /\ rule = "Resolve"
  /\ inp.fam = "made"
  /\ ~result.at.isNow
  /\ ~result.at.isTomorrow
  /\ result.at.increments = 0
  /\ result.at.year = 2012
  /\ result.at.month = 2
  /\ result.at.day = 29
  /\ result.now = RefTime(2010, 1, 31, 23, 59, 59)
  /\ result.ref.offset = -5 * 3600
  /\ absDate(result.time) = [year |-> 2012, month |-> 2, day |-> 29]

\* C22: calling Resolve again on the same Timespec with the same reference
\* returns the time the first call returned.
C22_ResolveRepeatable ==
  rule = "ResolveAgain" => result.time = result.first

\* C29: Resolve of a Timespec with isNow and no increment returns the
\* instant of the reference, expressed in UTC, whatever the location of the
\* reference is.
C29_NowIsTheReferenceInstant ==
  (/\ rule = "Resolve"
   /\ result.at.isNow
   /\ result.at.increments = 0)
  => (/\ result.time.day = result.ref.day
      /\ result.time.sec = result.ref.sec
      /\ result.time.offset = 0)

\* The place of a weekday name in the week, Monday being 0.
WeekdayIndex(w) == CHOOSE i \in 0..6 : w \in {DayFull[i + 1], DayAbbr[i + 1]}

C28_PeekKeepsTheCursor ==
  /\ rule = "peek"
       => (/\ result.in.pos = result.before.pos
           /\ result.c = (IF result.before.pos < Len(src)
                            THEN src[result.before.pos + 1] ELSE 0))
  /\ rule \in {"ReadByte", "peek", "skip", "any", "expectN", "expectBytes"}
       => result.in.pos >= result.before.pos

\* C24: the end of the source is told apart from every byte of it and no
\* class takes it for a byte: peek and skip return 0 only at the end of the
\* source (a NUL byte in the source is not the end), and what expectN and
\* any append to their buffer are bytes of the source, never the 0 of a
\* read at the end.
C24_EndIsNoByte ==
  /\ rule = "peek" => (result.c = 0 <=> result.before.pos >= Len(src))
  /\ rule = "skip" => (result.c = 0 => result.in.pos >= Len(src))
  /\ rule \in {"expectN", "any"}
       => (/\ Len(result.out) <= Len(src) - result.before.pos
           /\ result.out = SubSeq(src, result.before.pos + 1,
                                  result.before.pos + Len(result.out)))

\* The number of calls of ReadByte that Parse(timespec) makes.
ParseReads(timespec) == parseTimespec(buffer(timespec), Timespec).in.reads

\* One call of skip, any, expectN or expectBytes reads at most once more
\* than there are bytes ahead of the cursor.
LoopsStop ==
  rule \in {"skip", "any", "expectN", "expectBytes"}
    => result.in.reads <= Len(src) - result.before.pos + 1

\* The reads of one call of Parse stay below the length of the input plus
\* 18: the reads that find a byte not to match, or the end, and are undone.
ParseReadsLinear == rule = "Parse" => ParseReads(src) <= Len(src) + 18

\* C23: a loop of skip, any, expectN or expectBytes stops at the end of the
\* source or at the first byte that does not match, and the number of reads
\* of one call of Parse is bounded by a linear function of the length of the
\* input.
C23_LoopsStopAndReadsAreLinear == LoopsStop /\ ParseReadsLinear

\* C25: when Parse takes the time path and the date rule fails, the
\* Timespec has year = month = day = 0 and isTomorrow unset, whatever the
\* date rule had stored; when the increment rule fails, increments is 0,
\* whatever count it had stored; hours and minutes are those of the time
\* rule in every case.
C25_NoPartialSegment ==
  (/\ rule = "Parse"
   /\ result.err = nil
   /\ src[1] # char_n)
  => LET increment(d, i) ==
           /\ d.err # nil => (/\ result.spec.year = 0
                              /\ result.spec.month = 0
                              /\ result.spec.day = 0
                              /\ ~result.spec.isTomorrow)
           /\ i.err # nil => result.spec.increments = 0
         date(t, d) ==
           /\ result.spec.hours = t.spec.hours
           /\ result.spec.minutes = t.spec.minutes
           /\ increment(d, parseincrement(d.in, d.spec))
         time(t) == date(t, parseDate(t.in, t.spec))
     IN time(parseTime(buffer(src), Timespec))

\* In "12:00 Feb 2 + 3 fortnights" the date rule failed after it had stored
\* the month and the increment rule after it had stored the count.
C25_Witness ==
  /\ rule = "Parse"
  /\ inp.fam = "segment"
  /\ inp.text = "12:00 Feb 2 + 3 fortnights"
  /\ parseDate(buffer(Bytes(" Feb 2 + 3 fortnights")), Timespec).err # nil
  /\ parseDate(buffer(Bytes(" Feb 2 + 3 fortnights")), Timespec).spec.month = 2
  /\ parseincrement(buffer(Bytes(" + 3 fortnights")), Timespec).err # nil
  /\ parseincrement(buffer(Bytes(" + 3 fortnights")), Timespec).spec.increments
       = 3
  /\ result.err = nil
  /\ result.spec = [Timespec EXCEPT !.hours = 12]

\* C26: a Timespec that Parse returns has 0 <= hours <= 23 and
\* 0 <= minutes <= 59, also when am or pm follows the hour 0 or an hour
\* from 13 to 23.
C26_HoursAndMinutesInRange ==
  (rule = "Parse" /\ result.err = nil)
  => (result.spec.hours \in 0..23 /\ result.spec.minutes \in 0..59)

\* "23:30 pm" has been parsed: the hour is still 23.
C26_Witness ==
  /\ rule = "Parse"
  /\ inp.fam = "suffix"
  /\ inp.h = 23
  /\ inp.min = 30
  /\ inp.ampm = "pm"
  /\ result.err = nil
  /\ result.spec.hours = 23
  /\ result.spec.minutes = 30

\* The date tokens that are no date word, no weekday and no month name.
UnknownDates == {" Foo", " pq", " nope"}

\* The count and unit that a well-formed increment stands for.
IncrementOf(inc) ==
  CASE inc = " + 1 day" -> [count |-> 1, unit |-> 2]
    [] inc = " next week" -> [count |-> 1, unit |-> 3]

\* C30: for a valid time T, a date token X that is no date and a well-formed
\* increment I, Parse of "T X I" succeeds with year = month = day = 0 and
\* the count and unit of I: the increment rule goes on behind X.
C30_IncrementAfterFailedDate ==
  (/\ rule = "Parse"
   /\ inp.fam = "segment"
   /\ inp.head \in GoodHeads \ {"now"}
   /\ inp.date \in UnknownDates
   /\ inp.inc \in GoodIncrements \ {""}
   /\ inp.trail = "")
  => (/\ result.err = nil
      /\ result.spec.year = 0
      /\ result.spec.month = 0
      /\ result.spec.day = 0
      /\ result.spec.increments = IncrementOf(inp.inc).count
      /\ result.spec.unit = IncrementOf(inp.inc).unit)

====
